---------------------------- MODULE Spec2Model ----------------------------
(***************************************************************************)
(* Heads-up poker hand engine of backend/game_logic.py (class PokerGame).  *)
(* The engine object (GameState + deck) is the record `game`; every method *)
(* of PokerGame is an operator from engine records to engine records, and  *)
(* the one mutating entry point, handle_player_action, is the one action.  *)
(***************************************************************************)
EXTENDS Integers, Sequences, FiniteSets, TLC

\* ------------------------------------------------------------------ bounds

\* Number of distinct shuffled deck orders a hand may be constructed with.
NumShuffles == 2
\* Number of handle_player_action calls explored after winner is set.
MaxAfterOver == 1
\* The history counter raises_this_round stops counting at this value.
MaxCountedRaises == 4
\* Number of hands dealt in a session (the first hand and the next hands).
MaxHands == 2
\* The history counter bot_actions stops counting at this value.
MaxBotActions == 3

\* ------------------------------------------------------- program constants

small_blind == 10
big_blind == 20
\* enigma_env_shaped.py: MAX_RAISES_PER_STREET, MAX_RAISE_MULTI_POT
MAX_RAISES_PER_STREET == 3
MAX_RAISE_MULTI_POT == 2
BIG_BLIND == 20

\* ------------------------------------------------------------ input domains

None == "none"
\* GameState.players, in list order: index 0 is "user", index 1 is "bot".
PlayerOrder == <<"user", "bot">>
Ids == {"user", "bot"}
\* player_id arguments a caller may pass (one is no player of the game).
CallerIds == {"user", "bot", "nobody"}
\* action strings callers pass: the three the engine knows and "check",
\* which main.py and both environments send.
Verbs == {"fold", "call", "raise", "check"}
\* requested raise amounts: negative, zero, in range, above every stack.
Amounts == {-20, 0, 500, 5000}
\* (user_chips, bot_chips) a PokerGame is constructed with.
StartingStacks == {<<1000, 1000>>, <<5, 100>>, <<100, 30>>, <<0, 30>>}

\* --------------------------------------------------------------- the deck

\* Card(rank=r, suit=s) for r in "23456789TJQKA" for s in "shdc": card c
\* (0..51) has rank index c \div 4 and suit index c % 4.
NewDeck == [i \in 1..52 |-> i - 1]
RankOf(c) == c \div 4

\* random.shuffle(self.deck): one of NumShuffles permutations of the deck.
ShuffleMultipliers == <<1, 7, 11, 15, 3, 5>>
Shuffle(k) ==
    [i \in 1..52 |->
        NewDeck[((ShuffleMultipliers[((k - 1) % 6) + 1] * (i - 1) + 5 * k) % 52) + 1]]
Shuffles == {Shuffle(k) : k \in 1..NumShuffles}
\* the cards of a list of cards
CardSet(cards) == {cards[i] : i \in 1..Len(cards)}

\* -------------------------------------------------------------- helpers

Other(id) == IF id = "user" THEN "bot" ELSE "user"
IndexOf(id) == IF id = "user" THEN 0 ELSE 1
\* PlayerAt one seat off: a fault C15_BlindRoles detects
PlayerAt_OneSeatOff(i) == PlayerOrder[((i + 1) % 2) + 1]

PlayerAt(i) == PlayerOrder[i + 1]

NoAction == <<None, 0>>

Player(c) ==
    [chips |-> c, hand |-> <<>>, current_bet |-> 0, has_acted |-> FALSE,
     is_all_in |-> FALSE, folded |-> FALSE, last_action |-> NoAction]

ActivePlayers(g) == {p \in Ids : ~g.players[p].folded}

\* Evaluator.evaluate(board, hand) of the external deuces library: a pure
\* function of the seven cards whose lower values are better.  Only its
\* order is used by the engine; here the strength is the largest group of
\* equal ranks among the seven cards, then the rank of that group.
Evaluate(board, hand) ==
    LET mult(cards, r) == Cardinality({i \in DOMAIN cards : RankOf(cards[i]) = r})
        value(cards, r) == 13 * mult(cards, r) + r
        best(cards) == CHOOSE r \in 0..12 :
                           \A q \in 0..12 : value(cards, r) >= value(cards, q)
    IN  CHOOSE score \in {7462 - value(cards, best(cards)) :
                              cards \in {board \o hand}} : TRUE

\* ----------------------------------------------------- PokerGame methods

\* DetermineWinner with the score comparison reversed: a fault
\* C12_ShowdownWinner detects
DetermineWinner_HigherScoreWins(g) ==
    LET user == g.players["user"]
        bot == g.players["bot"]
        user_score == Evaluate(g.community_cards, user.hand)
        bot_score == Evaluate(g.community_cards, bot.hand)
    IN  IF user.folded
        THEN [g EXCEPT !.winner = "bot", !.players["bot"].chips = @ + g.pot]
        ELSE IF bot.folded
        THEN [g EXCEPT !.winner = "user", !.players["user"].chips = @ + g.pot]
        ELSE IF user_score > bot_score
        THEN [g EXCEPT !.winner = "user", !.players["user"].chips = @ + g.pot]
        ELSE IF bot_score > user_score
        THEN [g EXCEPT !.winner = "bot", !.players["bot"].chips = @ + g.pot]
        ELSE [g EXCEPT !.winner = "tie",
                       !.players["user"].chips = @ + (g.pot \div 2),
                       !.players["bot"].chips = @ + (g.pot \div 2)]

\* DetermineWinner without the two fold tests: a fault
\* C25_FoldedNeverWins detects
DetermineWinner_NoFoldTest(g) ==
    LET user == g.players["user"]
        bot == g.players["bot"]
        user_score == Evaluate(g.community_cards, user.hand)
        bot_score == Evaluate(g.community_cards, bot.hand)
    IN  IF user_score < bot_score
        THEN [g EXCEPT !.winner = "user", !.players["user"].chips = @ + g.pot]
        ELSE IF bot_score < user_score
        THEN [g EXCEPT !.winner = "bot", !.players["bot"].chips = @ + g.pot]
        ELSE [g EXCEPT !.winner = "tie",
                       !.players["user"].chips = @ + (g.pot \div 2),
                       !.players["bot"].chips = @ + (g.pot \div 2)]

\* _determine_winner
DetermineWinner(g) ==
    LET user == g.players["user"]
        bot == g.players["bot"]
        user_score == Evaluate(g.community_cards, user.hand)
        bot_score == Evaluate(g.community_cards, bot.hand)
    IN  IF user.folded
        THEN [g EXCEPT !.winner = "bot", !.players["bot"].chips = @ + g.pot]
        ELSE IF bot.folded
        THEN [g EXCEPT !.winner = "user", !.players["user"].chips = @ + g.pot]
        ELSE IF user_score < bot_score
        THEN [g EXCEPT !.winner = "user", !.players["user"].chips = @ + g.pot]
        ELSE IF bot_score < user_score
        THEN [g EXCEPT !.winner = "bot", !.players["bot"].chips = @ + g.pot]
        ELSE [g EXCEPT !.winner = "tie",
                       !.players["user"].chips = @ + (g.pot \div 2),
                       !.players["bot"].chips = @ + (g.pot \div 2)]

\* _start_new_hand, with the freshly shuffled deck as its input
StartNewHand(g0, shuffled) ==
    LET dealer == IF g0.pot > 0 THEN (g0.dealer_position + 1) % 2
                  ELSE g0.dealer_position
        sb == PlayerAt(dealer)
        bb == PlayerAt((dealer + 1) % 2)
        sb_hand == <<shuffled[52], shuffled[51]>>
        bb_hand == <<shuffled[50], shuffled[49]>>
        seat(p) ==
            [chips |-> g0.players[p].chips -
                         (IF p = sb THEN g0.small_blind ELSE g0.big_blind),
             hand |-> IF p = sb THEN sb_hand ELSE bb_hand,
             current_bet |-> IF p = sb THEN g0.small_blind ELSE g0.big_blind,
             has_acted |-> FALSE, is_all_in |-> FALSE, folded |-> FALSE,
             last_action |-> NoAction]
    IN  [g0 EXCEPT !.dealer_position = dealer,
                   !.players = [p \in Ids |-> seat(p)],
                   !.community_cards = <<>>,
                   !.winner = None,
                   !.deck = SubSeq(shuffled, 1, 48),
                   !.pot = g0.small_blind + g0.big_blind,
                   !.current_bet_to_match = g0.big_blind,
                   !.current_stage = "pre-flop",
                   !.current_player_id = sb,
                   !.last_raiser_id = bb]

\* PokerGame.__init__
NewGame(user_chips, bot_chips, dealer_pos, shuffled) ==
    StartNewHand(
        [players |-> [p \in Ids |-> Player(IF p = "user" THEN user_chips ELSE bot_chips)],
         community_cards |-> <<>>,
         pot |-> 0,
         current_stage |-> "pre-flop",
         current_player_id |-> None,
         current_bet_to_match |-> 0,
         last_raiser_id |-> None,
         small_blind |-> small_blind,
         big_blind |-> big_blind,
         dealer_position |-> dealer_pos,
         winner |-> None,
         game_over |-> FALSE,
         deck |-> shuffled],
        shuffled)

\* AdvanceTurn with the fold test left out: a fault C5_FoldEndsHand detects
AdvanceTurn_NoFoldTest(g) ==
    [g EXCEPT !.current_player_id =
                 PlayerAt((IndexOf(g.current_player_id) + 1) % 2)]

\* AdvanceTurn that leaves the turn with the player who acted: a fault
\* C33_BotLoop detects
AdvanceTurn_TurnNotPassed(g) ==
    IF Cardinality(ActivePlayers(g)) = 1
    THEN DetermineWinner([g EXCEPT !.current_stage = "showdown"])
    ELSE g

\* _advance_turn
AdvanceTurn(g) ==
    IF Cardinality(ActivePlayers(g)) = 1
    THEN DetermineWinner([g EXCEPT !.current_stage = "showdown"])
    ELSE [g EXCEPT !.current_player_id =
                      PlayerAt((IndexOf(g.current_player_id) + 1) % 2)]

\* IsBettingRoundOver without the has_acted test: a fault
\* C17_RoundCompletionBothIn detects
IsBettingRoundOver_NoActedTest(g) ==
    LET active == ActivePlayers(g)
        first_bet == IF ~g.players["user"].folded THEN g.players["user"].current_bet
                     ELSE IF ~g.players["bot"].folded THEN g.players["bot"].current_bet
                     ELSE 0
        all_bets_equal == \A p \in active : g.players[p].current_bet = first_bet
        bb == PlayerAt((g.dealer_position + 1) % 2)
        is_bb_option == /\ g.current_bet_to_match = g.big_blind
                        /\ g.current_player_id = bb
                        /\ ~g.players[bb].has_acted
    IN  IF Cardinality(active) <= 1 THEN TRUE
        ELSE all_bets_equal /\ ~is_bb_option

\* IsBettingRoundOver that only compares the bets: a fault
\* C18_BigBlindOption detects
IsBettingRoundOver_BetsOnly(g) ==
    LET active == ActivePlayers(g)
        first_bet == IF ~g.players["user"].folded THEN g.players["user"].current_bet
                     ELSE IF ~g.players["bot"].folded THEN g.players["bot"].current_bet
                     ELSE 0
    IN  IF Cardinality(active) <= 1 THEN TRUE
        ELSE \A p \in active : g.players[p].current_bet = first_bet

\* IsBettingRoundOver without the comparison of the bets: a fault
\* C13_TieSplitsWholePot detects
IsBettingRoundOver_NoEqualTest(g) ==
    LET active == ActivePlayers(g)
        all_acted == \A p \in active : g.players[p].has_acted
        bb == PlayerAt((g.dealer_position + 1) % 2)
        is_bb_option == /\ g.current_bet_to_match = g.big_blind
                        /\ g.current_player_id = bb
                        /\ ~g.players[bb].has_acted
    IN  IF Cardinality(active) <= 1 THEN TRUE
        ELSE all_acted /\ ~is_bb_option

\* _is_betting_round_over
IsBettingRoundOver(g) ==
    LET active == ActivePlayers(g)
        first_bet == IF ~g.players["user"].folded THEN g.players["user"].current_bet
                     ELSE IF ~g.players["bot"].folded THEN g.players["bot"].current_bet
                     ELSE 0
        all_acted == \A p \in active : g.players[p].has_acted
        all_bets_equal == \A p \in active : g.players[p].current_bet = first_bet
        bb == PlayerAt((g.dealer_position + 1) % 2)
        is_bb_option == /\ g.current_bet_to_match = g.big_blind
                        /\ g.current_player_id = bb
                        /\ ~g.players[bb].has_acted
    IN  IF Cardinality(active) <= 1 THEN TRUE
        ELSE all_acted /\ all_bets_equal /\ ~is_bb_option

\* Stages with flop and turn exchanged: a fault C24_StageOrdering detects
Stages_TurnBeforeFlop == <<"pre-flop", "turn", "flop", "river", "showdown">>

Stages == <<"pre-flop", "flop", "turn", "river", "showdown">>
StageIndex(s) == CHOOSE i \in 1..5 : Stages[i] = s

\* FlopCards one card short: a fault C8_BoardCardinality detects
FlopCards_TwoCards(deck) ==
    <<deck[Len(deck) - 1], deck[Len(deck) - 2]>>

\* FlopCards that reveals the first flop card twice: a fault
\* C32_NoCardTwice detects
FlopCards_RepeatsCard(deck) ==
    <<deck[Len(deck) - 1], deck[Len(deck) - 1], deck[Len(deck) - 3]>>

\* _advance_stage, the flop: after the burn (the last card) the next three
\* cards popped from the end of the deck
FlopCards(deck) ==
    <<deck[Len(deck) - 1], deck[Len(deck) - 2], deck[Len(deck) - 3]>>

\* AdvanceStage with the seat after the dealer acting first: a fault
\* C23_StageAdvanceEffect detects
AdvanceStage_NonDealerFirst(g) ==
    LET i == StageIndex(g.current_stage)
        next_stage == Stages[i + 1]
        n == Len(g.deck)
        swept == [g EXCEPT
            !.players = [p \in Ids |->
                IF g.players[p].folded THEN g.players[p]
                ELSE [g.players[p] EXCEPT !.has_acted = FALSE, !.current_bet = 0]],
            !.current_bet_to_match = 0,
            !.current_player_id = PlayerAt((g.dealer_position + 1) % 2),
            !.last_raiser_id = None,
            !.current_stage = next_stage]
    IN  IF i >= 5 THEN [g EXCEPT !.game_over = TRUE]
        ELSE IF next_stage = "flop"
        THEN [swept EXCEPT
                !.community_cards = @ \o FlopCards(g.deck),
                !.deck = SubSeq(g.deck, 1, n - 4)]
        ELSE IF next_stage \in {"turn", "river"}
        THEN [swept EXCEPT
                !.community_cards = Append(@, g.deck[n - 1]),
                !.deck = SubSeq(g.deck, 1, n - 2)]
        ELSE DetermineWinner(swept)

\* AdvanceStage that burns no card before the turn and the river: a fault
\* C26_DealingAndBurns detects
AdvanceStage_NoBurn(g) ==
    LET i == StageIndex(g.current_stage)
        next_stage == Stages[i + 1]
        n == Len(g.deck)
        swept == [g EXCEPT
            !.players = [p \in Ids |->
                IF g.players[p].folded THEN g.players[p]
                ELSE [g.players[p] EXCEPT !.has_acted = FALSE, !.current_bet = 0]],
            !.current_bet_to_match = 0,
            !.current_player_id = PlayerAt(g.dealer_position),
            !.last_raiser_id = None,
            !.current_stage = next_stage]
    IN  IF i >= 5 THEN [g EXCEPT !.game_over = TRUE]
        ELSE IF next_stage = "flop"
        THEN [swept EXCEPT
                !.community_cards = @ \o FlopCards(g.deck),
                !.deck = SubSeq(g.deck, 1, n - 4)]
        ELSE IF next_stage \in {"turn", "river"}
        THEN [swept EXCEPT
                !.community_cards = Append(@, g.deck[n]),
                !.deck = SubSeq(g.deck, 1, n - 1)]
        ELSE DetermineWinner(swept)

\* _advance_stage
AdvanceStage(g) ==
    LET i == StageIndex(g.current_stage)
        next_stage == Stages[i + 1]
        n == Len(g.deck)
        swept == [g EXCEPT
            !.players = [p \in Ids |->
                IF g.players[p].folded THEN g.players[p]
                ELSE [g.players[p] EXCEPT !.has_acted = FALSE, !.current_bet = 0]],
            !.current_bet_to_match = 0,
            !.current_player_id = PlayerAt(g.dealer_position),
            !.last_raiser_id = None,
            !.current_stage = next_stage]
    IN  IF i >= 5 THEN [g EXCEPT !.game_over = TRUE]
        ELSE IF next_stage = "flop"
        THEN [swept EXCEPT
                !.community_cards = @ \o FlopCards(g.deck),
                !.deck = SubSeq(g.deck, 1, n - 4)]
        ELSE IF next_stage \in {"turn", "river"}
        THEN [swept EXCEPT
                !.community_cards = Append(@, g.deck[n - 1]),
                !.deck = SubSeq(g.deck, 1, n - 2)]
        ELSE DetermineWinner(swept)

\* NotYourTurn with the turn test left out: a fault C3_InvalidTurn detects
NotYourTurn_LookupOnly(g, player_id) ==
    player_id \notin Ids

\* the turn check of handle_player_action (and _get_player's lookup):
\* TRUE when the call raises ValueError before anything is written
NotYourTurn(g, player_id) ==
    \/ player_id \notin Ids
    \/ player_id # g.current_player_id

\* ApplyCall with the pot not credited: a fault C1_ChipConservation detects
ApplyCall_PotNotCredited(g, player_id) ==
    LET player == g.players[player_id]
        to_call == g.current_bet_to_match - player.current_bet
        amount_to_call == IF to_call > player.chips THEN player.chips ELSE to_call
    IN  [g EXCEPT
            !.players[player_id].last_action =
                IF to_call > 0 THEN <<"Call", 0>> ELSE <<"Check", 0>>,
            !.players[player_id].chips = @ - amount_to_call,
            !.players[player_id].current_bet = @ + amount_to_call,
            !.players[player_id].has_acted = TRUE]

\* handle_player_action, the "call" branch
ApplyCall(g, player_id) ==
    LET player == g.players[player_id]
        to_call == g.current_bet_to_match - player.current_bet
        amount_to_call == IF to_call > player.chips THEN player.chips ELSE to_call
    IN  [g EXCEPT
            !.players[player_id].last_action =
                IF to_call > 0 THEN <<"Call", 0>> ELSE <<"Check", 0>>,
            !.players[player_id].chips = @ - amount_to_call,
            !.players[player_id].current_bet = @ + amount_to_call,
            !.pot = @ + amount_to_call,
            !.players[player_id].has_acted = TRUE]

\* handle_player_action, the clamping of a requested raise amount
ClampRaise(g, player_id, amount) ==
    LET player == g.players[player_id]
        min_raise == g.current_bet_to_match * 2
        a1 == IF amount < min_raise THEN min_raise ELSE amount
    IN  IF a1 > player.chips + player.current_bet
        THEN player.chips + player.current_bet ELSE a1

\* ApplyRaise with the pot not credited: a fault C29_PotHoldsLiveBets
\* detects
ApplyRaise_PotNotCredited(g, player_id, amount) ==
    LET player == g.players[player_id]
        target == ClampRaise(g, player_id, amount)
        amount_to_add == target - player.current_bet
        new_bet == player.current_bet + amount_to_add
    IN  [g EXCEPT
            !.players[player_id].chips = @ - amount_to_add,
            !.players[player_id].current_bet = new_bet,
            !.current_bet_to_match = new_bet,
            !.last_raiser_id = player_id,
            !.players[Other(player_id)].has_acted = FALSE,
            !.players[player_id].has_acted = TRUE,
            !.players[player_id].last_action = <<"Raise to $", new_bet>>]

\* ApplyRaise with the opponent's has_acted left as it is: a fault
\* C22_EffectiveRaise detects
ApplyRaise_NoReset(g, player_id, amount) ==
    LET player == g.players[player_id]
        target == ClampRaise(g, player_id, amount)
        amount_to_add == target - player.current_bet
        new_bet == player.current_bet + amount_to_add
    IN  [g EXCEPT
            !.players[player_id].chips = @ - amount_to_add,
            !.players[player_id].current_bet = new_bet,
            !.pot = @ + amount_to_add,
            !.current_bet_to_match = new_bet,
            !.last_raiser_id = player_id,
            !.players[player_id].has_acted = TRUE,
            !.players[player_id].last_action = <<"Raise to $", new_bet>>]

\* handle_player_action, the "raise" branch
ApplyRaise(g, player_id, amount) ==
    LET player == g.players[player_id]
        target == ClampRaise(g, player_id, amount)
        amount_to_add == target - player.current_bet
        new_bet == player.current_bet + amount_to_add
    IN  [g EXCEPT
            !.players[player_id].chips = @ - amount_to_add,
            !.players[player_id].current_bet = new_bet,
            !.pot = @ + amount_to_add,
            !.current_bet_to_match = new_bet,
            !.last_raiser_id = player_id,
            !.players[Other(player_id)].has_acted = FALSE,
            !.players[player_id].has_acted = TRUE,
            !.players[player_id].last_action = <<"Raise to $", new_bet>>]

\* handle_player_action, the "fold" branch
ApplyFold(g, player_id) ==
    [g EXCEPT !.players[player_id].folded = TRUE,
              !.players[player_id].last_action = <<"Fold", 0>>]

\* handle_player_action, the if/elif chain over the action string: a string
\* that is none of "fold", "call", "raise" matches no branch
ApplyVerb(g, player_id, action, amount) ==
    IF action = "fold" THEN ApplyFold(g, player_id)
    ELSE IF action = "call" THEN ApplyCall(g, player_id)
    ELSE IF action = "raise" THEN ApplyRaise(g, player_id, amount)
    ELSE g

\* handle_player_action, the tail: _advance_turn, then _advance_stage when
\* _is_betting_round_over
FinishAction(g) ==
    CHOOSE after \in {IF IsBettingRoundOver(turned) THEN AdvanceStage(turned)
                      ELSE turned : turned \in {AdvanceTurn(g)}} : TRUE

\* handle_player_action as a function: the outcome ("ok", or "error" for
\* the ValueError) and the engine afterwards
Handle(g, player_id, action, amount) ==
    IF NotYourTurn(g, player_id)
    THEN [result |-> "error", game |-> g]
    ELSE [result |-> "ok",
          game |-> FinishAction(
                      ApplyVerb([g EXCEPT !.players[Other(player_id)].last_action = NoAction],
                                player_id, action, amount))]

\* handle_player_action up to the point where it asks
\* _is_betting_round_over: the action applied and the turn advanced
Turned(g, player_id, action, amount) ==
    AdvanceTurn(ApplyVerb([g EXCEPT !.players[Other(player_id)].last_action = NoAction],
                          player_id, action, amount))

\* ------------------------------------------- the shaped environment

Max(a, b) == IF a > b THEN a ELSE b
Min(a, b) == IF a < b THEN a ELSE b

\* to_call as build_observation and _raise_amount_from_tier compute it
EnvToCall(g, pov) ==
    Max(0, g.current_bet_to_match - g.players[pov].current_bet)

\* build_observation, the action mask: reading state.legal_actions raises
\* AttributeError when GameState has no such field
LegalMask(g, pov) ==
    IF "legal_actions" \notin DOMAIN g
    THEN [error |-> "AttributeError",
          fold |-> FALSE, check_call |-> FALSE, raise |-> FALSE]
    ELSE [error |-> None,
          fold |-> EnvToCall(g, pov) > 0,
          check_call |-> TRUE,
          raise |-> /\ "raise" \in g.legal_actions
                    /\ g.players[pov].chips > EnvToCall(g, pov)
                    /\ g.winner = None]

\* _raise_amount_from_tier; int(0.6 * x) and int(0.75 * x) of an integer
\* x >= 0 are (6 * x) \div 10 and (3 * x) \div 4
RaiseAmountFromTier(g, tier, pov) ==
    LET me == g.players[pov]
        to_call == EnvToCall(g, pov)
        pot_now == g.pot + g.players["user"].current_bet
                         + g.players["bot"].current_bet
        min_bump == Max(BIG_BLIND, to_call + BIG_BLIND)
        target ==
            IF tier = 2 THEN me.current_bet + to_call + 2 * BIG_BLIND
            ELSE IF tier = 3
            THEN me.current_bet + to_call
                   + ((6 * Max(pot_now, 3 * BIG_BLIND)) \div 10)
            ELSE me.current_bet + to_call
                   + ((3 * Max(pot_now, 4 * BIG_BLIND)) \div 4)
        amt == IF tier \in {2, 3, 4}
               THEN Max(target, me.current_bet + min_bump) ELSE 0
        max_raise == Min(me.current_bet + me.chips,
                         me.current_bet
                           + MAX_RAISE_MULTI_POT * Max(pot_now, BIG_BLIND * 10))
        capped == Min(amt, max_raise)
    IN  IF capped <= me.current_bet THEN me.current_bet ELSE capped

\* ------------------------------------------------------------ the machine

VARIABLES
    game,               \* the PokerGame object: GameState fields and deck
    result,             \* outcome of the last handle_player_action call
    starting_total,     \* history: user_chips + bot_chips at construction
    raises_this_round,  \* history: effective raises on the current street
    after_over,         \* history: accepted calls made after winner was set
    submitted,          \* history: seats with an accepted call on this street
    hand_no,            \* history: number of hands dealt so far
    calls_only,         \* the callers have switched to submitting only calls
    carried,            \* history: the pot when the current street opened
    burn_pile,          \* history: the cards popped and discarded this hand
    pc,                 \* player_action: "idle", or "bot_loop" while it runs
    request_action,     \* history: action.action of the request in the loop
    bot_actions         \* history: bot actions the running loop has made

vars == <<game, result, starting_total, raises_this_round, after_over,
          submitted, hand_no, calls_only, carried, burn_pile,
          pc, request_action, bot_actions>>

TypeOK ==
    /\ game.current_stage \in {Stages[i] : i \in 1..5}
    /\ game.winner \in Ids \cup {None, "tie"}
    /\ game.current_player_id \in Ids
    /\ game.last_raiser_id \in Ids \cup {None}
    /\ game.dealer_position \in {0, 1}
    /\ game.game_over \in BOOLEAN
    /\ \A p \in Ids : game.players[p].chips \in Int /\ Len(game.players[p].hand) = 2
    /\ result \in {"none", "ok", "error"}
    /\ raises_this_round \in 0..MaxCountedRaises
    /\ after_over \in 0..MaxAfterOver
    /\ submitted \subseteq Ids
    /\ hand_no \in 1..MaxHands
    /\ calls_only \in BOOLEAN
    /\ carried \in Int
    /\ burn_pile \subseteq CardSet(NewDeck)
    /\ pc \in {"idle", "bot_loop"}
    /\ request_action \in Verbs \cup {"none"}
    /\ bot_actions \in 0..MaxBotActions

Init ==
    \E stacks \in StartingStacks, dealer_pos \in {0, 1}, shuffled \in Shuffles :
        /\ game = NewGame(stacks[1], stacks[2], dealer_pos, shuffled)
        /\ result = "none"
        /\ starting_total = stacks[1] + stacks[2]
        /\ raises_this_round = 0
        /\ after_over = 0
        /\ submitted = {}
        /\ hand_no = 1
        /\ calls_only = FALSE
        /\ carried = 0
        /\ burn_pile = {}
        /\ pc = "idle"
        /\ request_action = "none"
        /\ bot_actions = 0

\* a raise that lifted the amount to match (counted per street)
EffectiveRaise(g, player_id, action, amount) ==
    /\ action = "raise"
    /\ Handle(g, player_id, action, amount).result = "ok"
    /\ ClampRaise(g, player_id, amount) > g.current_bet_to_match

\* handle_player_action(player_id, action, amount) on the engine, with the
\* history it leaves
EngineCall(player_id, action, amount) ==
    \E out \in {Handle(game, player_id, action, amount)} :
        /\ (out.result = "ok" /\ game.winner # None) => after_over < MaxAfterOver
        /\ game' = out.game
        /\ result' = out.result
        /\ after_over' = IF out.result = "ok" /\ game.winner # None
                         THEN after_over + 1 ELSE after_over
        /\ raises_this_round' =
              IF out.game.current_stage # game.current_stage THEN 0
              ELSE IF EffectiveRaise(game, player_id, action, amount)
              THEN (IF raises_this_round < MaxCountedRaises
                    THEN raises_this_round + 1 ELSE raises_this_round)
              ELSE raises_this_round
        /\ submitted' =
              IF out.result # "ok" THEN submitted
              ELSE IF out.game.current_stage # game.current_stage THEN {}
              ELSE submitted \cup {player_id}
        /\ carried' = IF out.game.current_stage # game.current_stage
                      THEN out.game.pot ELSE carried
        /\ burn_pile' =
              IF out.game.deck = game.deck THEN burn_pile
              ELSE burn_pile \cup
                   (CardSet(game.deck) \ (CardSet(out.game.deck)
                                            \cup CardSet(out.game.community_cards)))
        /\ UNCHANGED <<starting_total, hand_no, calls_only>>

\* one call of handle_player_action(player_id, action, amount), made
\* directly on the engine
HandlePlayerAction(player_id, action, amount) ==
    /\ EngineCall(player_id, action, amount)
    /\ UNCHANGED <<pc, request_action, bot_actions>>

Next ==
    \E player_id \in CallerIds, action \in Verbs :
      \E amount \in (IF action = "raise" THEN Amounts ELSE {0}) :
        HandlePlayerAction(player_id, action, amount)

Spec == Init /\ [][Next]_vars

\* ------------------------------------------- callers that only call (C11)

\* any call of handle_player_action while the hand is on and the callers
\* have not yet switched to calling
FreePlay ==
    /\ ~calls_only
    /\ game.winner = None
    /\ Next

\* one hand up to the action that ends it: no call is submitted after
\* winner is set
SpecLive == Init /\ [][FreePlay]_vars

\* from here on every submitted action is a call by the seat to act
SwitchToCalls ==
    /\ ~calls_only
    /\ game.winner = None
    /\ calls_only' = TRUE
    /\ UNCHANGED <<game, result, starting_total, raises_this_round,
                   after_over, submitted, hand_no, carried, burn_pile,
                   pc, request_action, bot_actions>>

\* handle_player_action(current_player_id, "call") while the hand is on
CallBySeatToAct ==
    /\ calls_only
    /\ game.winner = None
    /\ HandlePlayerAction(game.current_player_id, "call", 0)

NextCalls == FreePlay \/ SwitchToCalls \/ CallBySeatToAct

\* the callers keep submitting calls for as long as the hand is on
SpecCalls == Init /\ [][NextCalls]_vars /\ WF_vars(CallBySeatToAct)

\* ------------------------------------ sessions of several hands (C14, C15)

\* what the history variables are when a hand has just been dealt
HandDealt(g) ==
    /\ game' = g
    /\ result' = "none"
    /\ starting_total' = g.players["user"].chips + g.players["user"].current_bet
                         + g.players["bot"].chips + g.players["bot"].current_bet
    /\ raises_this_round' = 0
    /\ after_over' = 0
    /\ submitted' = {}
    /\ hand_no' = hand_no + 1
    /\ carried' = 0
    /\ burn_pile' = {}
    /\ UNCHANGED <<calls_only, pc, request_action, bot_actions>>

\* handle_player_action(current_player_id, fold, call or all-in raise) while
\* the hand is on
PlayHand ==
    /\ game.winner = None
    /\ \E action \in {"fold", "call", "raise"} :
           HandlePlayerAction(game.current_player_id, action,
                              IF action = "raise" THEN 5000 ELSE 0)

\* main.next_hand: a new engine from the stacks carried forward and the
\* dealer position of the hand that has ended
NextHand ==
    /\ game.winner # None
    /\ hand_no < MaxHands
    /\ \E shuffled \in Shuffles :
           HandDealt(NewGame(game.players["user"].chips,
                             game.players["bot"].chips,
                             game.dealer_position, shuffled))

\* _start_new_hand called again on the engine of the hand that has ended
StartNewHandAgain ==
    /\ game.winner # None
    /\ hand_no < MaxHands
    /\ \E shuffled \in Shuffles : HandDealt(StartNewHand(game, shuffled))

NextHands == PlayHand \/ NextHand \/ StartNewHandAgain

SpecHands == Init /\ [][NextHands]_vars

\* ----------------------------------------- the action endpoint (main.py)

\* evaluate_hand_strength compared with 0.8 and 0.5 by rule_bot: the hand
\* strength is a number in [0, 1] computed from the cards, one of three
\* classes
Strengths == {"strong", "medium", "weak"}

\* rule_bot, for a hand strength of the given class; int(0.6 * x) and
\* int(0.5 * x) of an integer x >= 0 are (6 * x) \div 10 and x \div 2
\* (main.py defines BIG_BLIND = 20 as the environment does)
RuleBot(g, strength) ==
    LET bot == g.players["bot"]
        to_call == Max(0, g.current_bet_to_match - bot.current_bet)
        pot_now == g.pot + g.players["user"].current_bet
                         + g.players["bot"].current_bet
    IN  IF strength = "strong"
        THEN [verb |-> "raise",
              amount |-> bot.current_bet + to_call
                         + Max(BIG_BLIND * 2,
                               (6 * Max(pot_now, BIG_BLIND * 6)) \div 10)]
        ELSE IF strength = "medium"
        THEN [verb |-> IF to_call > 0 THEN "call" ELSE "check", amount |-> 0]
        ELSE IF to_call > Max(BIG_BLIND, Max(pot_now, BIG_BLIND * 4) \div 2)
        THEN [verb |-> "fold", amount |-> 0]
        ELSE [verb |-> "check", amount |-> 0]

\* map_action(state, a) for the action id a the policy returns; int(x) of
\* an integer is x and int(0.75 * x) is (3 * x) \div 4 for x >= 0
MapAction(g, a) ==
    LET me == g.players["bot"]
        to_call == Max(0, g.current_bet_to_match - me.current_bet)
        pot_now == g.pot + g.players["user"].current_bet
                         + g.players["bot"].current_bet
    IN  IF a = 0
        THEN [verb |-> IF to_call > 0 THEN "fold" ELSE "check", amount |-> 0]
        ELSE IF a = 1
        THEN [verb |-> IF to_call > 0 THEN "call" ELSE "check", amount |-> 0]
        ELSE IF a = 2
        THEN [verb |-> "raise", amount |-> me.current_bet + to_call + 40]
        ELSE IF a = 3
        THEN [verb |-> "raise", amount |-> me.current_bet + to_call + pot_now]
        ELSE IF a = 4
        THEN [verb |-> "raise",
              amount |-> me.current_bet + to_call + ((3 * pot_now) \div 4)]
        ELSE [verb |-> "check", amount |-> 0]

\* the (verb, amt) pairs one pass of the bot loop can choose: rule_bot's
\* when no policy is loaded or when the policy branch raises, which
\* build_observation does on reading state.legal_actions; map_action's
\* otherwise
BotMoves(g) ==
    {RuleBot(g, strength) : strength \in Strengths}
        \cup (IF LegalMask(g, "bot").error = None
              THEN {MapAction(g, a) : a \in 0..4}
              ELSE {})

\* player_action with action.action = "none": no call for the user, the
\* bot loop is entered
PlayerActionNone ==
    /\ pc = "idle"
    /\ pc' = "bot_loop"
    /\ request_action' = "none"
    /\ bot_actions' = 0
    /\ UNCHANGED <<game, result, starting_total, raises_this_round,
                   after_over, submitted, hand_no, calls_only, carried,
                   burn_pile>>

\* action.amount of the requests: the smallest raise and all-in (the raises
\* in between are the bot's)
RequestAmounts == {0, 5000}

\* player_action with a user action: handle_player_action("user", ...);
\* its ValueError ends the request, otherwise the bot loop is entered
PlayerActionUser ==
    /\ pc = "idle"
    /\ \E action \in Verbs :
         \E amount \in (IF action = "raise" THEN RequestAmounts ELSE {0}) :
            /\ EngineCall("user", action, amount)
            /\ pc' = IF NotYourTurn(game, "user") THEN "idle" ELSE "bot_loop"
            /\ request_action' =
                  IF NotYourTurn(game, "user") THEN "none" ELSE action
            /\ bot_actions' = 0

\* one pass of the bot loop: the loop test holds, a move is chosen and
\* handle_player_action("bot", verb, amt) is called
BotLoopStep ==
    /\ pc = "bot_loop"
    /\ game.current_player_id = "bot"
    /\ game.winner = None
    /\ \E move \in BotMoves(game) : EngineCall("bot", move.verb, move.amount)
    /\ bot_actions' = IF bot_actions < MaxBotActions
                      THEN bot_actions + 1 ELSE bot_actions
    /\ UNCHANGED <<pc, request_action>>

\* the loop test fails and player_action returns the state
BotLoopReturn ==
    /\ pc = "bot_loop"
    /\ ~(game.current_player_id = "bot" /\ game.winner = None)
    /\ pc' = "idle"
    /\ request_action' = "none"
    /\ bot_actions' = 0
    /\ UNCHANGED <<game, result, starting_total, raises_this_round,
                   after_over, submitted, hand_no, calls_only, carried,
                   burn_pile>>

NextBot == PlayerActionNone \/ PlayerActionUser \/ BotLoopStep \/ BotLoopReturn

\* a request that has entered the bot loop runs on: the loop takes its next
\* pass or returns
SpecBot ==
    Init /\ [][NextBot]_vars /\ WF_vars(BotLoopStep) /\ WF_vars(BotLoopReturn)

\* --------------------------------------------------------------- shorthands

Chips(p) == game.players[p].chips
Bet(p) == game.players[p].current_bet
SumChips == Chips("user") + Chips("bot")
SumBets == Bet("user") + Bet("bot")
NobodyFolded == \A p \in Ids : ~game.players[p].folded
\* the amounts tried with an action: only "raise" reads its amount
AmountsFor(action) == IF action = "raise" THEN Amounts ELSE {0}
\* the step is an accepted handle_player_action(p, action, amount)
Accepted(p, action, amount) ==
    /\ Handle(game, p, action, amount).result = "ok"
    /\ result' = "ok"
    /\ game' = Handle(game, p, action, amount).game

\* ---------------------------------------------------------------------- C1

\* C1 as stated: in every reachable state chips + current bets + pot of
\* both players equals the sum of the two starting stacks.
C1_ConservationWithBets == SumChips + SumBets + game.pot = starting_total

\* C1 amended: while no winner is set, chips + pot equals the sum of the
\* starting stacks (the pot already holds both current bets); right after
\* the pot is distributed (winner set, no later call accepted) the two
\* stacks alone sum to the starting total.
C1_ChipConservation ==
    /\ game.winner = None => SumChips + game.pot = starting_total
    /\ (game.winner # None /\ after_over = 0) => SumChips = starting_total

\* a showdown paid a pot that grew beyond the blinds
C1_Witness ==
    /\ NobodyFolded
    /\ game.winner \in Ids
    /\ after_over = 0
    /\ game.pot > 100
    /\ Len(game.community_cards) = 5

\* ---------------------------------------------------------------------- C2

\* C2 as stated: once winner is set, every handle_player_action call is
\* rejected with an error and leaves the engine unchanged.
C2_GameOverRejects ==
    [][game.winner # None => (result' = "error" /\ game' = game)]_vars

\* ---------------------------------------------------------------------- C3

\* C3: a call whose player_id is not current_player_id fails with an error
\* and leaves the whole engine state unchanged, for every verb and amount.
C3_InvalidTurn ==
    \A p \in CallerIds, a \in Verbs, amt \in Amounts :
        p # game.current_player_id =>
            Handle(game, p, a, amt) = [result |-> "error", game |-> game]

\* an out-of-turn call was rejected in the middle of a hand
C3_Witness ==
    /\ result = "error"
    /\ game.winner = None
    /\ game.current_stage = "flop"
    /\ game.pot > 40

\* ---------------------------------------------------------------------- C4

\* C4 as stated: while the hand is not over, current_bet_to_match equals the
\* largest current_bet of the players who have not folded.
C4_BetEqualization ==
    game.winner = None =>
        \A p \in ActivePlayers(game) :
            /\ Bet(p) <= game.current_bet_to_match
            /\ \E q \in ActivePlayers(game) : Bet(q) = game.current_bet_to_match

\* ---------------------------------------------------------------------- C5

\* the step is a fold by the seat to act while both players are in the hand
FoldStep(p) ==
    /\ NobodyFolded
    /\ p = game.current_player_id
    /\ Accepted(p, "fold", 0)

\* C5 as stated: such a fold sets winner to the other player and raises the
\* other player's chips by pot + both current bets of the state before it.
C5_FoldPaysPotPlusBets ==
    [][\A p \in Ids : FoldStep(p) =>
          /\ game'.winner = Other(p)
          /\ game'.players[Other(p)].chips = Chips(Other(p)) + game.pot + SumBets]_vars

\* C5 amended: such a fold ends the hand in the same action (winner is the
\* other player) and the other player's chips rise by exactly pot, which
\* already contains both current bets.
C5_FoldEndsHand ==
    [][\A p \in Ids : FoldStep(p) =>
          /\ game'.winner = Other(p)
          /\ game'.players[Other(p)].chips = Chips(Other(p)) + game.pot
          /\ game'.players[p].chips = Chips(p)]_vars

\* a fold on the flop ended the hand
C5_Witness ==
    /\ \E p \in Ids : game.players[p].folded /\ game.winner = Other(p)
    /\ after_over = 0
    /\ Len(game.community_cards) = 3
    /\ game.pot > 40

\* ---------------------------------------------------------------------- C6

\* the spec's raise bounds, on the state before the raise
SpecToCall(p) == game.current_bet_to_match - Bet(p)
SpecMinRaise(p) ==
    IF big_blind > 2 * SpecToCall(p) THEN big_blind ELSE 2 * SpecToCall(p)
SpecPotNow == game.pot + SumBets
SpecMaxRaise(p) ==
    LET stack_cap == Bet(p) + Chips(p)
        pot_cap == Bet(p) + SpecToCall(p) + SpecPotNow * MAX_RAISE_MULTI_POT
    IN  IF stack_cap < pot_cap THEN stack_cap ELSE pot_cap

\* C6 as stated: after any raise by the seat to act, whatever amount was
\* requested, the raiser's current_bet lies in [min_raise, max_raise].
C6_RaiseClamping ==
    [][\A p \in Ids, amt \in Amounts :
          (p = game.current_player_id /\ Accepted(p, "raise", amt)) =>
              /\ game'.players[p].current_bet >= SpecMinRaise(p)
              /\ game'.players[p].current_bet <= SpecMaxRaise(p)]_vars

\* ---------------------------------------------------------------------- C7

\* C7 as stated: each player's chips is >= 0 in every reachable state.
C7_ChipsNonNegative == \A p \in Ids : Chips(p) >= 0

\* ---------------------------------------------------------------------- C8

BoardSize == Len(game.community_cards)

\* C8 as stated: the board holds 0 cards pre-flop, 3 on the flop, 4 on the
\* turn and 5 on the river and at showdown, also when a fold ended the hand.
C8_BoardMatchesStage ==
    /\ game.current_stage = "pre-flop" => BoardSize = 0
    /\ game.current_stage = "flop" => BoardSize = 3
    /\ game.current_stage = "turn" => BoardSize = 4
    /\ game.current_stage \in {"river", "showdown"} => BoardSize = 5

\* C8 amended: 0/3/4/5 cards for pre-flop/flop/turn/river, and 5 at a
\* showdown reached with nobody folded; a hand ended by a fold has stage
\* showdown with the board of the street of the fold (0, 3, 4 or 5 cards).
C8_BoardCardinality ==
    /\ game.current_stage = "pre-flop" => BoardSize = 0
    /\ game.current_stage = "flop" => BoardSize = 3
    /\ game.current_stage = "turn" => BoardSize = 4
    /\ game.current_stage = "river" => BoardSize = 5
    /\ (game.current_stage = "showdown" /\ NobodyFolded) => BoardSize = 5
    /\ (game.current_stage = "showdown" /\ ~NobodyFolded) => BoardSize \in {0, 3, 4, 5}

\* a fold on the turn ended the hand: stage showdown with four cards
C8_Witness ==
    /\ game.current_stage = "showdown"
    /\ ~NobodyFolded
    /\ BoardSize = 4
    /\ after_over = 0

\* ---------------------------------------------------------------------- C9

\* the engine right after construction with stacks 1000/1000, dealer seat 0
OpeningStart ==
    /\ result = "none"
    /\ starting_total = 2000
    /\ game.dealer_position = 0

\* the engine after seat 0 (user) has called in the opening scenario
OpeningAfterCall ==
    /\ starting_total = 2000
    /\ game.dealer_position = 0
    /\ game.current_stage = "pre-flop"
    /\ game.current_player_id = "bot"
    /\ game.pot = 40
    /\ Chips("user") = 980 /\ Bet("user") = 20
    /\ Chips("bot") = 980 /\ Bet("bot") = 20
    /\ game.players["user"].has_acted
    /\ ~game.players["bot"].has_acted

\* C9 as stated: the opening scenario: the start state, the state after
\* seat 0 calls, and after seat 1 submits "check" the flop with pot 40,
\* nothing to match, three community cards and seat 0 to act.
C9_OpeningScenario ==
    /\ [](OpeningStart =>
            /\ Chips("user") = 990 /\ Bet("user") = 10
            /\ Chips("bot") = 980 /\ Bet("bot") = 20
            /\ game.pot = 30
            /\ game.current_stage = "pre-flop"
            /\ game.current_player_id = "user")
    /\ [][(OpeningStart /\ Accepted("user", "call", 0)) => OpeningAfterCall']_vars
    /\ [][(OpeningAfterCall /\ Accepted("bot", "check", 0)) =>
            /\ game'.current_stage = "flop"
            /\ game'.pot = 40
            /\ game'.current_bet_to_match = 0
            /\ Len(game'.community_cards) = 3
            /\ game'.current_player_id = "user"]_vars

\* --------------------------------------------------------------------- C10

\* C10 as stated: the number of effective raises within one street never
\* exceeds the per-street cap.
C10_RaiseCap == raises_this_round <= MAX_RAISES_PER_STREET

\* --------------------------------------------------------------------- C11

\* C11 as stated: once every submitted action is a call by the seat to act,
\* the hand reaches a state with winner set after finitely many actions.
C11_HandTerminates == calls_only ~> (game.winner # None)

\* --------------------------------------------------------------------- C12

\* the evaluator's score of p's hand on the board of the current state
Score(p) == Evaluate(game.community_cards, game.players[p].hand)
\* the engine after the seat to act has submitted (action, amount)
AfterAction(action, amount) ==
    Handle(game, game.current_player_id, action, amount).game
\* the action closes the river round with both players still in the hand
ClosesRiver(action, amount) ==
    /\ game.current_stage = "river"
    /\ AfterAction(action, amount).current_stage = "showdown"
    /\ \A p \in Ids : ~AfterAction(action, amount).players[p].folded
\* p's stack once the closing action has moved its chips into the pot
StackAtShowdown(p, action, amount) ==
    IF p = game.current_player_id
    THEN Chips(p) - (AfterAction(action, amount).pot - game.pot)
    ELSE Chips(p)
ShowdownPays(w, l, action, amount) ==
    LET after == AfterAction(action, amount)
    IN  /\ after.winner = w
        /\ after.players[w].chips = StackAtShowdown(w, action, amount) + after.pot
        /\ after.players[l].chips = StackAtShowdown(l, action, amount)

\* C12: when the river round completes with both players not folded, the
\* player with the strictly lower evaluator score becomes winner and gets
\* the full pot while the other stack is unchanged; equal scores give "tie".
C12_ShowdownWinner ==
    \A action \in Verbs : \A amount \in AmountsFor(action) :
        ClosesRiver(action, amount) =>
            LET after == AfterAction(action, amount)
                user_score == Evaluate(after.community_cards, after.players["user"].hand)
                bot_score == Evaluate(after.community_cards, after.players["bot"].hand)
            IN  /\ user_score < bot_score => ShowdownPays("user", "bot", action, amount)
                /\ bot_score < user_score => ShowdownPays("bot", "user", action, amount)
                /\ user_score = bot_score => after.winner = "tie"

C12_Witness ==
    /\ game.current_stage = "showdown"
    /\ NobodyFolded
    /\ Score("bot") < Score("user")
    /\ game.winner = "bot"
    /\ game.pot > 40
    /\ after_over = 0

\* --------------------------------------------------------------------- C13

\* C13: when a showdown has ended in a tie, the two halves credited make up
\* the entire pot, so the two stacks sum to the starting total.
C13_TieSplitsWholePot ==
    (game.winner = "tie" /\ after_over = 0) =>
        /\ 2 * (game.pot \div 2) = game.pot
        /\ SumChips = starting_total

C13_Witness ==
    /\ game.winner = "tie"
    /\ after_over = 0
    /\ Score("user") = Score("bot")
    /\ Len(game.community_cards) = 5
    /\ game.pot > 40

\* --------------------------------------------------------------------- C14

\* C14 as stated: every hand after the first is dealt with dealer_position
\* equal to the other seat than in the hand before it, on both paths.
C14_DealerAlternates ==
    [][hand_no' # hand_no =>
         game'.dealer_position = 1 - game.dealer_position]_vars

\* --------------------------------------------------------------------- C15

DealerSeat == IF game.dealer_position = 0 THEN "user" ELSE "bot"
NonDealerSeat == IF game.dealer_position = 0 THEN "bot" ELSE "user"

\* C15: right after a hand has been dealt the dealer seat holds the small
\* blind and is to act, the other seat holds the big blind,
\* current_bet_to_match is the big blind, the stage is pre-flop, the board
\* is empty and winner is unset.
C15_BlindRoles ==
    result = "none" =>
        /\ Bet(DealerSeat) = small_blind
        /\ game.current_player_id = DealerSeat
        /\ Bet(NonDealerSeat) = big_blind
        /\ game.current_bet_to_match = big_blind
        /\ game.current_stage = "pre-flop"
        /\ game.community_cards = <<>>
        /\ game.winner = None

C15_Witness ==
    /\ result = "none"
    /\ hand_no = 2
    /\ game.dealer_position = 1
    /\ game.current_player_id = "bot"
    /\ Bet("bot") = small_blind

\* --------------------------------------------------------------------- C17

\* every non-folded player of g has acted and their bets are equal
RoundComplete(g) ==
    /\ \A p \in Ids : ~g.players[p].folded => g.players[p].has_acted
    /\ \A p, q \in Ids :
          (~g.players[p].folded /\ ~g.players[q].folded) =>
              g.players[p].current_bet = g.players[q].current_bet
\* the seat to act submits (action, amount) and the stage changes
StageMoves(action, amount) ==
    Handle(game, game.current_player_id, action, amount).game.current_stage
        # game.current_stage

\* C17 as stated: the stage changes only through an action after which every
\* non-folded player has acted and all non-folded bets are equal.
C17_RoundCompletion ==
    \A action \in Verbs : \A amount \in AmountsFor(action) :
        StageMoves(action, amount) =>
            RoundComplete(Turned(game, game.current_player_id, action, amount))

\* C17 amended: with both players still in the hand the stage changes only
\* through an action after which both have acted and their bets are equal;
\* once a player has folded the stage is showdown, acted or not.
C17_RoundCompletionBothIn ==
    \A action \in Verbs : \A amount \in AmountsFor(action) :
        LET turned == Turned(game, game.current_player_id, action, amount)
            after == Handle(game, game.current_player_id, action, amount).game
        IN  IF \A p \in Ids : ~turned.players[p].folded
            THEN StageMoves(action, amount) => RoundComplete(turned)
            ELSE after.current_stage = "showdown"

C17_Witness ==
    /\ game.current_stage = "flop"
    /\ submitted = {}
    /\ result = "ok"
    /\ NobodyFolded
    /\ game.pot >= 80
    /\ \A p \in Ids : ~game.players[p].has_acted /\ Bet(p) = 0

\* --------------------------------------------------------------------- C18

\* the dealer seat, which holds the small blind, calls as the first action
\* of the hand
SmallBlindCompletes ==
    /\ game.current_stage = "pre-flop"
    /\ game.winner = None
    /\ submitted = {}
    /\ raises_this_round = 0
    /\ game.current_player_id = DealerSeat
    /\ Accepted(DealerSeat, "call", 0)
\* the stage leaves pre-flop after the small blind has acted and nobody
\* has raised
LeavesPreFlopUnraised ==
    /\ game.current_stage = "pre-flop"
    /\ game'.current_stage # "pre-flop"
    /\ DealerSeat \in submitted
    /\ raises_this_round = 0

\* C18: pre-flop, when the small blind calls and nobody has raised, the
\* round stays open with the big-blind seat to act, and the stage does not
\* leave pre-flop before the big-blind seat has submitted an action.
C18_BigBlindOption ==
    [][/\ SmallBlindCompletes =>
            /\ game'.current_stage = "pre-flop"
            /\ game'.winner = None
            /\ game'.current_player_id = NonDealerSeat
       /\ LeavesPreFlopUnraised =>
            \/ game.current_player_id = NonDealerSeat
            \/ NonDealerSeat \in submitted]_vars

C18_Witness ==
    /\ game.current_stage = "pre-flop"
    /\ game.winner = None
    /\ submitted = {DealerSeat}
    /\ raises_this_round = 0
    /\ game.current_player_id = NonDealerSeat
    /\ Bet(DealerSeat) = big_blind
    /\ ~game.players[NonDealerSeat].has_acted

\* --------------------------------------------------------------------- C19

\* C19 as stated: when the seat to act has nothing to call, "check" leaves
\* the engine in exactly the state that "call" leaves it in.
C19_CheckEqualsCall ==
    (game.winner = None
       /\ game.current_bet_to_match - Bet(game.current_player_id) = 0) =>
        Handle(game, game.current_player_id, "check", 0).game
            = Handle(game, game.current_player_id, "call", 0).game

\* --------------------------------------------------------------------- C20

\* C20 as stated: a call by the seat to act moves amt = min(to_call, chips)
\* from its stack to its current_bet and to the pot, with 0 <= amt <= chips,
\* and sets has_acted.
C20_CallAmount ==
    game.winner = None =>
        LET p == game.current_player_id
            to_call == game.current_bet_to_match - Bet(p)
            amt == IF to_call < Chips(p) THEN to_call ELSE Chips(p)
            called == ApplyCall(game, p)
        IN  /\ 0 <= amt
            /\ amt <= Chips(p)
            /\ called.players[p].chips = Chips(p) - amt
            /\ called.players[p].current_bet = Bet(p) + amt
            /\ called.pot = game.pot + amt
            /\ called.players[p].has_acted

\* --------------------------------------------------------------------- C21

\* C21 as stated: a raise by the seat to act never lowers
\* current_bet_to_match, and a raise whose clamped target does not exceed
\* current_bet_to_match moves the chips a call moves.
C21_RaiseNeverLowers ==
    game.winner = None =>
        \A amount \in Amounts :
            LET p == game.current_player_id
                raised == ApplyRaise(game, p, amount)
                called == ApplyCall(game, p)
            IN  /\ raised.current_bet_to_match >= game.current_bet_to_match
                /\ ClampRaise(game, p, amount) <= game.current_bet_to_match =>
                      /\ raised.players[p].chips = called.players[p].chips
                      /\ raised.players[p].current_bet = called.players[p].current_bet
                      /\ raised.pot = called.pot
                      /\ raised.current_bet_to_match = called.current_bet_to_match

\* --------------------------------------------------------------------- C22

\* C22: while the hand is on, after a raise that lifts the raiser's
\* current_bet above the previous current_bet_to_match,
\* current_bet_to_match is the raiser's current_bet, last_raiser_id is the
\* raiser, the opponent has not acted and is the seat to act, and the round
\* is still open.
C22_EffectiveRaise ==
    game.winner = None =>
        \A amount \in Amounts :
            \A p \in {game.current_player_id},
               target \in {ClampRaise(game, game.current_player_id, amount)},
               after \in {AfterAction("raise", amount)} :
                target > game.current_bet_to_match =>
                  /\ after.players[p].current_bet = target
                  /\ after.current_bet_to_match = after.players[p].current_bet
                  /\ after.last_raiser_id = p
                  /\ ~after.players[Other(p)].has_acted
                  /\ after.current_player_id = Other(p)
                  /\ after.current_stage = game.current_stage
                  /\ after.winner = None

C22_Witness ==
    /\ game.winner = None
    /\ game.current_stage = "turn"
    /\ game.last_raiser_id = Other(game.current_player_id)
    /\ game.current_bet_to_match = Bet(game.last_raiser_id)
    /\ game.current_bet_to_match > Bet(game.current_player_id)
    /\ ~game.players[game.current_player_id].has_acted
    /\ raises_this_round = 2

\* --------------------------------------------------------------------- C23

\* the stage has just advanced to a street after pre-flop
StreetJustOpened ==
    /\ game.current_stage \in {"flop", "turn", "river"}
    /\ submitted = {}

\* C23: right after the stage has advanced to flop, turn or river, both
\* current bets are 0, current_bet_to_match is 0, last_raiser_id is none,
\* no non-folded player has acted and the dealer seat is to act.
C23_StageAdvanceEffect ==
    StreetJustOpened =>
        /\ \A p \in Ids : Bet(p) = 0
        /\ game.current_bet_to_match = 0
        /\ game.last_raiser_id = None
        /\ \A p \in Ids : ~game.players[p].folded => ~game.players[p].has_acted
        /\ game.current_player_id = DealerSeat

C23_Witness ==
    /\ StreetJustOpened
    /\ game.current_stage = "turn"
    /\ game.dealer_position = 1
    /\ game.current_player_id = "bot"
    /\ game.pot > 40
    /\ result = "ok"

\* --------------------------------------------------------------------- C24

\* the position of a stage in the order of the streets
StreetNo(stage) ==
    CASE stage = "pre-flop" -> 1
      [] stage = "flop" -> 2
      [] stage = "turn" -> 3
      [] stage = "river" -> 4
      [] stage = "showdown" -> 5

\* C24: whenever the stage changes it moves to the next street in the order
\* pre-flop, flop, turn, river, showdown, with both players in the hand, or
\* it jumps to showdown with a player folded.
C24_StageOrdering ==
    [][game'.current_stage # game.current_stage =>
         \/ /\ NobodyFolded'
            /\ StreetNo(game'.current_stage) = StreetNo(game.current_stage) + 1
         \/ /\ ~NobodyFolded'
            /\ game'.current_stage = "showdown"
            /\ game'.winner # None]_vars

C24_Witness ==
    /\ game.current_stage = "river"
    /\ Len(game.community_cards) = 5
    /\ NobodyFolded
    /\ submitted = {}
    /\ result = "ok"
    /\ game.winner = None

\* --------------------------------------------------------------------- C25

\* C25: as soon as a player has folded the winner is the other player,
\* whatever the cards are, and the board does not grow any more.
C25_FoldedNeverWins ==
    [][\A p \in Ids :
          game'.players[p].folded =>
              /\ game'.winner = Other(p)
              /\ game'.community_cards = game.community_cards]_vars

\* the player who folded on the river held the better hand
C25_Witness ==
    \E p \in Ids :
        /\ game.players[p].folded
        /\ game.winner = Other(p)
        /\ Len(game.community_cards) = 5
        /\ Score(p) < Score(Other(p))

\* --------------------------------------------------------------------- C26

\* the cards burned before the reveals that made a board of n cards
Burned(n) == IF n = 0 THEN 0 ELSE n - 2
\* the cards that are in the deck, in a hand or on the board
CardsInPlay ==
    {game.deck[i] : i \in 1..Len(game.deck)}
        \cup {game.community_cards[i] : i \in 1..Len(game.community_cards)}
        \cup UNION {{game.players[p].hand[1], game.players[p].hand[2]} : p \in Ids}

\* C26: every player holds 2 hole cards, the cards in play are distinct
\* cards of the 52-card deck, one card is burned before each reveal, and
\* the deck holds 48, 44, 42 and 40 cards on the four streets.
C26_DealingAndBurns ==
    /\ \A p \in Ids : Len(game.players[p].hand) = 2
    /\ CardsInPlay \subseteq {NewDeck[i] : i \in 1..52}
    /\ Cardinality(CardsInPlay) = Len(game.deck) + Len(game.community_cards) + 4
    /\ Len(game.deck) + Len(game.community_cards)
          + Burned(Len(game.community_cards)) + 4 = 52
    /\ game.current_stage = "pre-flop" => Len(game.deck) = 48
    /\ game.current_stage = "flop" => Len(game.deck) = 44
    /\ game.current_stage = "turn" => Len(game.deck) = 42
    /\ game.current_stage = "river" => Len(game.deck) = 40

C26_Witness ==
    /\ hand_no = 2
    /\ game.current_stage = "river"
    /\ Len(game.deck) = 40
    /\ Len(game.community_cards) = 5

\* --------------------------------------------------------------------- C29

\* C29: while winner is unset, the two stacks and the pot sum to the
\* starting stacks, and the pot is the chips carried from the completed
\* streets plus the two current bets.
C29_PotHoldsLiveBets ==
    game.winner = None =>
        /\ SumChips + game.pot = starting_total
        /\ game.pot = carried + SumBets

C29_Witness ==
    /\ game.winner = None
    /\ game.current_stage = "turn"
    /\ carried >= 80
    /\ Bet("user") > 0
    /\ Bet("bot") > Bet("user")

\* --------------------------------------------------------------------- C30

\* C30 as stated: under any sequence of calls on one hand the two stacks
\* never sum to more than the starting stacks, and winner does not change
\* once it is set.
C30_PaidAtMostOnce ==
    [][/\ SumChips' <= starting_total
       /\ game.winner # None => game'.winner = game.winner]_vars

\* --------------------------------------------------------------------- C27

\* C27 as stated: for the seat about to decide the mask is computed; fold is
\* offered iff to_call > 0, check or call is offered, and raise is offered
\* iff the street's raise count is below the cap, chips exceed to_call and
\* the hand is not over.
C27_LegalActionSet ==
    game.winner = None =>
        LET pov == game.current_player_id
            mask == LegalMask(game, pov)
        IN  /\ mask.error = None
            /\ mask.fold = (EnvToCall(game, pov) > 0)
            /\ mask.check_call
            /\ mask.raise = (/\ raises_this_round < MAX_RAISES_PER_STREET
                             /\ Chips(pov) > EnvToCall(game, pov)
                             /\ game.winner = None)

\* --------------------------------------------------------------------- C28

\* C28 as stated: for every state, seat and tier in {2, 3, 4} the total bet
\* of _raise_amount_from_tier is at most current_bet + chips, at most
\* current_bet + 2 * (pot + both current bets), and at least current_bet.
C28_RaiseSizingCap ==
    \A pov \in Ids, tier \in {2, 3, 4} :
        LET amt == RaiseAmountFromTier(game, tier, pov)
        IN  /\ amt <= Bet(pov) + Chips(pov)
            /\ amt <= Bet(pov) + 2 * (game.pot + SumBets)
            /\ amt >= Bet(pov)

\* --------------------------------------------------------------------- C31

\* C31 as stated: in every reachable state winner is set if and only if
\* game_over is true, whether the hand ended by a fold or by a showdown
\* after the river.
C31_TerminalFlagsAgree ==
    (game.winner # None) <=> game.game_over

\* --------------------------------------------------------------------- C32

\* the hole cards, the board and the deck, as one list
CardsDealt ==
    game.players["user"].hand \o game.players["bot"].hand
        \o game.community_cards \o game.deck

\* C32: the hole cards, the community cards and the cards left in the deck
\* are pairwise distinct, none of them is a burned card, and together with
\* the burned cards they are exactly the 52 cards of the deck.
C32_NoCardTwice ==
    \A dealt \in {CardSet(CardsDealt)} :
        /\ Cardinality(dealt) = Len(CardsDealt)
        /\ dealt \cap burn_pile = {}
        /\ dealt \cup burn_pile = CardSet(NewDeck)

C32_Witness ==
    /\ hand_no = 2
    /\ game.current_stage = "showdown"
    /\ Len(game.community_cards) = 5
    /\ Cardinality(burn_pile) = 3
    /\ NobodyFolded

\* --------------------------------------------------------------------- C33

\* C33: a request that enters the bot loop returns after finitely many bot
\* actions (player_action is always idle again later); when it returns
\* winner is set or it is the user's turn; every pass of the loop is made
\* on the bot's turn and is accepted by the engine.
C33_BotLoop ==
    /\ []<>(pc = "idle")
    /\ [][(pc = "bot_loop" /\ pc' = "idle") =>
             (game'.winner # None \/ game'.current_player_id = "user")]_vars
    /\ [][(pc = "bot_loop" /\ pc' = "bot_loop") =>
             (game.current_player_id = "bot" /\ result' = "ok")]_vars

C33_Witness ==
    /\ pc = "bot_loop"
    /\ request_action = "raise"
    /\ result = "ok"
    /\ bot_actions = 2
    /\ game.winner = None
    /\ game.current_stage = "flop"
    /\ game.current_player_id = "user"
=============================================================================
